---- MODULE Spec2Model ----
(***************************************************************************)
(* memorizeit: the wave generation and gameplay timing engine.             *)
(*                                                                         *)
(* The module models colors.py (colour catalog, pick, Random), figure.py   *)
(* (Wave2D / Wave3D generation), game.py (Game, Static, Dynamic) and the   *)
(* event loop of config.py (Handler).                                      *)
(*                                                                         *)
(* Conventions                                                             *)
(*  - Colour components are kept in tenths (0.5 is 5, 0.8 is 8, 1 is 10).  *)
(*  - Time is kept in units of 1/Scale second, so that 7 / speed is an     *)
(*    integer number of units for every allowed speed.                     *)
(*  - Every call of the random module is a nondeterministic choice.  The   *)
(*    operators that model such a call take a parameter lim: only the      *)
(*    first lim members of the population are drawn.  With lim at least    *)
(*    the size of the population the choice is the full one.               *)
(*  - A Python value that can be of several types is a record whose        *)
(*    field name gives the type: [rgb |-> <<r, g, b>>] is a colour tuple,  *)
(*    [flag |-> b] a bool, [surface |-> s] a pygame.Surface.               *)
(***************************************************************************)
EXTENDS Integers, Sequences, FiniteSets, TLC

VARIABLES
    pc,          \* position of the program: "init", "game", "summary", "exit"
    mode,        \* "Static" (2D) or "Dynamic" (3D): the class of the session
    platform,    \* sys.platform
    resolution,  \* Game.resolution: <<width, height>>
    images,      \* content of img/elements: the stems of the image files
    settings,    \* Game.settings
    timer,       \* Game.timer
    now,         \* latest value returned by time()
    tested,      \* value of time() at the latest test of the loop condition
    color,       \* Game.color.active_color (a colors.Random object)
    elements,    \* Game.elements
    counter,     \* Game.counter
    wave,        \* Game.wave
    spawned_at,  \* Dynamic.spawned_at
    camera,      \* number of glTranslatef calls made by Dynamic.move_view
    stopped,     \* Handler.stop() has replaced Handler.condition
    history,     \* every wave created so far: <<[figure, len, sound]>>
    summary,     \* the gui.Summary object: counted, submitted, the screen
    display,     \* what the session has drawn for the coming display.update()
    events,      \* what the latest pygame.event.get() of a Handler returned
    pulled,      \* every colour returned so far by the Random object
    arg,         \* arguments of the function under study
    ret          \* its result

vars == <<pc, mode, platform, resolution, images, settings, timer, now,
          tested, color, elements, counter, wave, spawned_at, camera, stopped,
          history, summary, display, events, pulled, arg, ret>>

sessionVars == <<mode, platform, resolution, images, settings, timer, now,
                 tested, elements, counter, wave, spawned_at, camera, stopped,
                 history, summary, display, events>>

(***************************************************************************)
(* Bounds of the model.                                                    *)
(***************************************************************************)
\* number of get_color calls followed on one Random object
MaxCalls == 3

\* members of a population that a random call of a session draws from
MaxDraw == 2

\* clock readings followed after each threshold of the timer
Slack == 1

\* glTranslatef calls followed in a Dynamic session
MaxTicks == 140

\* waves followed when waves are spawned one after the other
MaxWaves == 2

\* grid points that one draw of a wave position chooses from
PointDraw == 2

\* largest count of a figure type handed to the summary
MaxCount == 2

\* cap on a count entered in the summary, above the 99 at which the
\* arrows of the code stop
MaxEntry == 100

\* units of time per second: 7 / speed is whole for speed 1, 2, 3 and 4
Scale == 12

(***************************************************************************)
(* Helpers.                                                                *)
(***************************************************************************)
Min(a, b) == IF a < b THEN a ELSE b

Range(s) == {s[i] : i \in 1..Len(s)}

Remove(s, i) == SubSeq(s, 1, i - 1) \o SubSeq(s, i + 1, Len(s))

\* random.choice(pop): one member of the population
Choice(pop, lim) == {pop[i] : i \in 1..Min(lim, Len(pop))}

\* random.sample(pop, k): k members at distinct positions, in drawing
\* order; no outcome (ValueError) when k exceeds the population
RECURSIVE Sample(_, _, _)
Sample(pop, k, lim) ==
    IF k = 0 THEN {<<>>}
    ELSE UNION {{<<pop[i]>> \o s : s \in Sample(Remove(pop, i), k - 1, lim)}
                : i \in 1..Min(lim, Len(pop))}

\* random.choices(pop, k=k): k members, positions may repeat
RECURSIVE Choices(_, _, _)
Choices(pop, k, lim) ==
    IF k = 0 THEN {<<>>}
    ELSE UNION {{<<pop[i]>> \o s : s \in Choices(pop, k - 1, lim)}
                : i \in 1..Min(lim, Len(pop))}

(***************************************************************************)
(* colors.py                                                               *)
(***************************************************************************)
\* the keys of COLORS in dictionary order
ColorNames == <<"Green", "Orange", "Red", "Blue", "Yellow", "Violet", "Grey">>

COLORS == [Green  |-> <<0, 10, 0>>,
           Orange |-> <<10, 5, 0>>,
           Red    |-> <<8, 0, 0>>,
           Blue   |-> <<0, 0, 10>>,
           Yellow |-> <<10, 10, 0>>,
           Violet |-> <<10, 0, 10>>,
           Grey   |-> <<5, 5, 5>>]

\* the characters of the colour names, for the 'in' test of get_color
Spell == [Green  |-> <<"G", "r", "e", "e", "n">>,
          Orange |-> <<"O", "r", "a", "n", "g", "e">>,
          Red    |-> <<"R", "e", "d">>,
          Blue   |-> <<"B", "l", "u", "e">>,
          Yellow |-> <<"Y", "e", "l", "l", "o", "w">>,
          Violet |-> <<"V", "i", "o", "l", "e", "t">>,
          Grey   |-> <<"G", "r", "e", "y">>]

\* Python's  a in b  on two strings
StrIn(a, b) ==
    \E i \in 0..(Len(b) - Len(a)) : SubSeq(b, i + 1, i + Len(a)) = a

\* sample(COLORS.keys(), amount) with the draws repeated: random.choices
pick_names_repeating(amount, lim) == Choices(ColorNames, amount, lim)

\* sample(COLORS.keys(), amount)
pick_names(amount, lim) == Sample(ColorNames, amount, lim)

\* pick(setting, amount): the set of the results the call can return
pick(setting, amount, lim) ==
    IF setting = "Easy"
    THEN {[list |-> [i \in 1..Len(names) |-> [rgb |-> COLORS[names[i]]]]]
          : names \in pick_names(amount, lim)}
    ELSE {[flag |-> (setting = "Medium")]}

\* convert(color): (0-1) components to (0-255), int() truncating
convert(rgb) == [i \in 1..Len(rgb) |-> (rgb[i] * 255) \div 10]

\* the filter of get_color with the test dropped: every colour is kept
filter_colors_all(active) == ColorNames

\* list(filter((lambda x: self.active_color not in x), COLORS))
filter_colors(active) ==
    SelectSeq(ColorNames, LAMBDA x : ~StrIn(Spell[active], Spell[x]))

\* Random.get_color(): the names the call can make active; the call
\* returns COLORS[name]
get_color(active, lim) == Choice(filter_colors(active), lim)

(***************************************************************************)
(* figure.py: Wave2D and Wave3D.  A wave is the list Wave.figures; a draw  *)
(* limit is a record [amount, point, fresh] of limits, one per kind of     *)
(* random call of Wave.fill.                                               *)
(***************************************************************************)
\* bool(color) in  color if color else ...  : a tuple of three components
\* and a Surface are true, False is false
Truthy(c) == IF "flag" \in DOMAIN c THEN c.flag ELSE TRUE

\* isinstance(color, pygame.Surface)
IsSurface(c) == "surface" \in DOMAIN c

\* range(1, 10) of Wave2D.get_amount; every weight is positive
amount_range == <<1, 2, 3, 4, 5, 6, 7, 8, 9>>

\* Wave2D.get_amount()
get_amount(lim) == Choice(amount_range, lim)

\* Wave2D.get_mid_points(resolution): int(w - w / 6) is floor(5w / 6)
get_mid_points(res) ==
    LET w == res[1]
        h == res[2]
        xs == <<w \div 6, w \div 2, (5 * w) \div 6>>
        ys == <<h \div 6, h \div 2, (5 * h) \div 6>>
    IN  [k \in 1..9 |-> <<xs[((k - 1) \div 3) + 1], ys[((k - 1) % 3) + 1]>>]

\* Wave2D.get_figure_size(resolution): int(min(w / 3, h / 3) / 4)
get_figure_size(res) == Min(res[1], res[2]) \div 12

\* sample(self.get_mid_points(resolution), n) drawn with repetition
fill_points_repeating(res, n, lim) == Choices(get_mid_points(res), n, lim)

\* sample(self.get_mid_points(resolution), self.get_amount())
fill_points(res, n, lim) == Sample(get_mid_points(res), n, lim)

\* figure_color with one constant colour in place of the call of
\* colors.Random().get_color()
figure_color_constant(c, lim) ==
    IF Truthy(c) THEN {[color |-> c, pulls |-> 0]}
    ELSE {[color |-> [rgb |-> COLORS["Green"]], pulls |-> 0]}

\* color if color else colors.Random().get_color(): the colours one
\* instance can get, with the number of get_color calls made for it; a
\* fresh Random object holds Grey
figure_color(c, lim) ==
    IF Truthy(c) THEN {[color |-> c, pulls |-> 0]}
    ELSE {[color |-> [rgb |-> COLORS[name]], pulls |-> 1]
          : name \in get_color("Grey", lim)}

\* the 2D colour of one instance: converted unless it is an image
figure_color_2d(c, lim) ==
    {[color |-> IF IsSurface(c) THEN fc.color
                ELSE [rgb255 |-> convert(fc.color.rgb)],
      pulls |-> fc.pulls]
     : fc \in figure_color(c, lim)}

\* Wave2D(figure, color, screen, resolution).figures
Wave2D(figure, c, res, lim) ==
    UNION {
      UNION {
        {[i \in 1..n |-> [figure    |-> figure,
                          color     |-> cs[i].color,
                          pulls     |-> cs[i].pulls,
                          mid_point |-> pts[i],
                          size      |-> get_figure_size(res)]]
         : cs \in [1..n -> figure_color_2d(c, lim.fresh)]}
        : pts \in fill_points(res, n, lim.point)}
      : n \in get_amount(lim.amount)}

\* randint(2, 6) of Wave3D.fill replaced by randint(2, 7)
randint_2_7 == <<2, 3, 4, 5, 6, 7>>

\* randint(2, 6) of Wave3D.fill
randint_2_6 == <<2, 3, 4, 5, 6>>

\* Figure3D.get_random_shift(position_z): x and y are choice((-1, 1)) *
\* randrange(2, 10), z is randrange(position_z - 90, position_z - 60)
get_random_shift(position_z, lim) ==
    {<<sx * x, sy * y, z>>
     : sx \in Choice(<<0 - 1, 1>>, lim), x \in Choice(<<2, 3, 4, 5, 6, 7, 8, 9>>, lim),
       sy \in Choice(<<0 - 1, 1>>, lim), y \in Choice(<<2, 3, 4, 5, 6, 7, 8, 9>>, lim),
       z \in Choice([k \in 1..30 |-> position_z - 91 + k], lim)}

\* Wave3D(figure, color, position_z).figures; eval(self.figure) is the
\* class of the instance
Wave3D(figure, c, position_z, lim) ==
    UNION {
      UNION {
        {[i \in 1..n |-> [figure     |-> figure,
                          color      |-> cs[i].color,
                          pulls      |-> cs[i].pulls,
                          position_z |-> position_z,
                          shift      |-> sh[i]]]
         : cs \in [1..n -> figure_color(c, lim.fresh)]}
        : sh \in [1..n -> get_random_shift(position_z, lim.point)]}
      : n \in Choice(randint_2_6, lim.amount)}

\* Figure2D.__call__(): blit or polygon with self.color at self.points;
\* the pair is the object after the call and what it put on the screen
Figure2D_call(fig) ==
    <<fig, [color |-> fig.color, mid_point |-> fig.mid_point,
            size |-> fig.size]>>

\* Figure3D.__call__(): glColor3fv(self.color) and glVertex3fv of every
\* vertex, the vertices being those of the class moved by the shift
Figure3D_call(fig) ==
    <<fig, [color |-> fig.color, shift |-> fig.shift]>>

\* Wave.__call__ losing the last figure of the list
Wave_call_shrinking(figures) ==
    <<SubSeq(figures, 1, Len(figures) - 1),
      [i \in 1..Len(figures) |-> [color |-> figures[i].color]]>>

\* Wave.__call__(): every figure of the wave is called in turn; the pair
\* is the list self.figures after the call and what was drawn
Wave_call(figures) ==
    LET called == [i \in 1..Len(figures) |->
                     IF "mid_point" \in DOMAIN figures[i]
                     THEN Figure2D_call(figures[i])
                     ELSE Figure3D_call(figures[i])]
    IN  <<[i \in 1..Len(figures) |-> called[i][1]],
          [i \in 1..Len(figures) |-> called[i][2]]>>

(***************************************************************************)
(* game.py: the functions of Game, Static and Dynamic.                     *)
(***************************************************************************)
\* list(d) of a dictionary: its keys in some fixed order
RECURSIVE Keys(_)
Keys(S) ==
    IF S = {} THEN <<>>
    ELSE LET x == CHOOSE y \in S : TRUE
         IN  <<x>> \o Keys(S \ {x})

\* {**a, **b}
Merge(a, b) ==
    [k \in (DOMAIN a) \cup (DOMAIN b) |-> IF k \in DOMAIN b THEN b[k] ELSE a[k]]

\* {figure: color[index] for index, figure in enumerate(picked)}: a key
\* met twice keeps the value of its last position
DictOf(picked, colors) ==
    [f \in Range(picked) |->
        colors[CHOOSE i \in 1..Len(picked) :
                  /\ picked[i] = f
                  /\ \A j \in 1..Len(picked) : picked[j] = f => j <= i]]

\* create_timer with 'wave' left at 7 / speed
create_timer_single(st, t) ==
    LET total == st.time * Scale
        wv    == (7 * Scale) \div st.speed
    IN  [start |-> t, total |-> total, wave |-> wv, last |-> total - wv]

\* create_timer with 'last' set to the whole budget
create_timer_late(st, t) ==
    LET total == st.time * Scale
        wv    == (7 * Scale) \div st.speed
    IN  [start |-> t, total |-> total, wave |-> wv * 2, last |-> total]

\* Game.create_timer(), t being the value of time()
create_timer(st, t) ==
    LET total == st.time * Scale
        wv    == (7 * Scale) \div st.speed
    IN  [start |-> t, total |-> total, wave |-> wv * 2, last |-> total - wv]

\* has_time_left with >= for >
has_time_left_inclusive(tm, t) == tm.total >= t - tm.start

\* Game.has_time_left(), t being the value of time()
has_time_left(tm, t) == tm.total > t - tm.start

\* the condition of the Handler with stop() having no effect
Handler_condition_unstopped(stop, tm, t) == has_time_left(tm, t)

\* Handler.condition(): Game.has_time_left until stop() replaces it by
\* lambda: False; t is the value of time()
Handler_condition(stop, tm, t) == IF stop THEN FALSE ELSE has_time_left(tm, t)

\* is_wave_finished without the test of timer['last']
is_wave_finished_no_cutoff(condition, tm, t) == condition

\* Game.is_wave_finished(condition), t being the value of time()
is_wave_finished(condition, tm, t) ==
    IF condition THEN (IF tm.last > t - tm.start THEN TRUE ELSE FALSE)
    ELSE FALSE

\* the colour list of adjust_elements with every entry the first colour
color_list_first(c, amount) ==
    IF "flag" \in DOMAIN c THEN [i \in 1..amount |-> c]
    ELSE [i \in 1..amount |-> c.list[1]]

\* the colour list of adjust_elements
color_list(c, amount) ==
    IF "flag" \in DOMAIN c THEN [i \in 1..amount |-> c] ELSE c.list

\* Game.adjust_elements(figures, amount)
adjust_elements(figures, amount, st, lim) ==
    UNION {{DictOf(picked, color_list(c, amount))
            : c \in pick(st.colors, amount, lim)}
           : picked \in Sample(figures, amount, lim)}

\* Static.get_images(): a missing directory raises OSError, which leaves
\* the dictionary empty
get_images(dir) ==
    IF dir.exists THEN [s \in dir.stems |-> [surface |-> s]] ELSE <<>>

Figures2D == <<"square", "triangle", "octagon", "diamond">>

Figures3D == <<"Cube", "Pyramid", "Octahedron", "Octagon">>

\* Static.set_elements()
Static_set_elements(st, dir, lim) ==
    LET amount == st.figures
        imgs   == get_images(dir)
        len    == Cardinality(DOMAIN imgs)
    IN  IF len < amount
        THEN {Merge(imgs, figures)
              : figures \in adjust_elements(Figures2D, amount - len, st, lim)}
        ELSE {[x \in Range(picked) |-> imgs[x]]
              : picked \in Sample(Keys(DOMAIN imgs), amount, lim)}

\* Dynamic.set_elements()
Dynamic_set_elements(st, lim) == adjust_elements(Figures3D, st.figures, st, lim)

\* pick_element leaving the colour of a Medium wave to its instances
pick_element_no_pull(els, active, lim) ==
    UNION {
        LET c == els[figure]
        IN  IF "flag" \in DOMAIN c
            THEN {[figure |-> figure, color |-> [flag |-> FALSE],
                   active |-> active, pulls |-> 0]}
            ELSE {[figure |-> figure, color |-> c, active |-> active,
                   pulls |-> 0]}
      : figure \in Range(Keys(DOMAIN els))}

\* pick_element pulling the colour of a Medium wave from a new
\* colors.Random object each time
pick_element_fresh(els, active, lim) ==
    UNION {
        LET c == els[figure]
        IN  IF "flag" \in DOMAIN c
            THEN IF c.flag
                 THEN {[figure |-> figure, color |-> [rgb |-> COLORS[name]],
                        active |-> name, pulls |-> 1]
                       : name \in get_color("Grey", lim)}
                 ELSE {[figure |-> figure, color |-> [flag |-> FALSE],
                        active |-> active, pulls |-> 0]}
            ELSE {[figure |-> figure, color |-> c, active |-> active,
                   pulls |-> 0]}
      : figure \in Range(Keys(DOMAIN els))}

\* Game.pick_element(): [figure, color, active, pulls], active being the
\* colour held by self.color afterwards and pulls the number of calls of
\* self.color.get_color() made
pick_element(els, active, lim) ==
    UNION {
        LET c == els[figure]
        IN  IF "flag" \in DOMAIN c
            THEN IF c.flag
                 THEN {[figure |-> figure, color |-> [rgb |-> COLORS[name]],
                        active |-> name, pulls |-> 1]
                       : name \in get_color(active, lim)}
                 ELSE {[figure |-> figure, color |-> [flag |-> FALSE],
                        active |-> active, pulls |-> 0]}
            ELSE {[figure |-> figure, color |-> c, active |-> active,
                   pulls |-> 0]}
      : figure \in Range(Keys(DOMAIN els))}

\* line 177 of create_wave counting one per wave
count_wave_one(cnt, figure, figures) ==
    [cnt EXCEPT ![figure] = cnt[figure] + 1]

\* what pygame.mixer can do when a sound is played: it plays, or
\* mixer.init() or mixer.Sound() raises one of the two exceptions
SoundOutcomes == {"ok", "pygame.error", "FileNotFoundError"}

\* play_sound without the test of the setting
play_sound_always(st, outcome) ==
    IF outcome = "ok" THEN "played" ELSE "failed"

\* Game.play_sound(): "off" when nothing is tried, "played", or "failed"
\* when the exception was caught
play_sound(st, outcome) ==
    IF st.sound = "On"
    THEN (IF outcome = "ok" THEN "played" ELSE "failed")
    ELSE "off"

\* self.counter[figure[0]] = self.counter[figure[0]] + len(wave)
count_wave(cnt, figure, figures) ==
    [cnt EXCEPT ![figure] = cnt[figure] + Len(figures)]

\* Dynamic.get_speed() as the fraction <<numerator, denominator>>:
\* s / 5 - 0.15 * s is s / 20
get_speed(st, pf) ==
    IF StrIn(<<"w", "i", "n">>, pf) THEN <<st.speed, 20>> ELSE <<st.speed, 5>>

\* Dynamic.move_view() after n calls.  gluPerspective(45, w / h, 0.1, 50)
\* is applied to the modelview matrix, whose element [3][2] is then
\* -(50.1 / 49.9) * z - 10 / 49.9 for the translation z summed so far;
\* int() truncates towards zero.
move_view(n, st, pf) ==
    LET v == get_speed(st, pf)
    IN  0 - ((501 * v[1] * n + 100 * v[2]) \div (499 * v[2]))

\* the test of Dynamic.run_game with <= for <
camera_passed_at(camera_z, sp) == camera_z <= sp - 100

\* camera_z < self.spawned_at - 100
camera_passed(camera_z, sp) == camera_z < sp - 100

\* the test of Static.run_game without  + self.timer['wave']
wave_expired_early(tm, t) == t > tm.interval

\* the test of Static.run_game with >= for >
wave_expired_at(tm, t) == t >= tm.interval + tm.wave

\* time() > self.timer['interval'] + self.timer['wave']
wave_expired(tm, t) == t > tm.interval + tm.wave

(***************************************************************************)
(* config.py and gui.py: the stored settings and the settings menu.        *)
(*                                                                         *)
(* A value read from settings.json is a record whose field gives its       *)
(* Python type: [int |-> 2], [float |-> 2] (2.0), [bool |-> TRUE],         *)
(* [str |-> "Easy"]; [none |-> TRUE] stands for a key that is not there.   *)
(***************************************************************************)
SettingKeys == <<"figures", "time", "speed", "colors", "sound">>

\* Config.range
ConfigRange ==
    [figures |-> <<[int |-> 2], [int |-> 3], [int |-> 4]>>,
     time    |-> [i \in 1..12 |-> [int |-> 5 * i]],
     speed   |-> <<[int |-> 1], [int |-> 2], [int |-> 3], [int |-> 4]>>,
     colors  |-> <<[str |-> "Easy"], [str |-> "Medium"], [str |-> "Hard"]>>,
     sound   |-> <<[str |-> "Off"], [str |-> "On"]>>]

\* the dictionary default of check_content
ConfigDefault ==
    [figures |-> [int |-> 3], time |-> [int |-> 60], speed |-> [int |-> 2],
     colors |-> [str |-> "Medium"], sound |-> [str |-> "Off"]]

IsNumber(v) == DOMAIN v \cap {"int", "float", "bool"} # {}

\* the number a Python int, float or bool compares as
NumberOf(v) ==
    IF "int" \in DOMAIN v THEN v.int
    ELSE IF "float" \in DOMAIN v THEN v.float
    ELSE IF v.bool THEN 1 ELSE 0

\* a == b of Python for the values above
PyEq(a, b) ==
    IF IsNumber(a) /\ IsNumber(b) THEN NumberOf(a) = NumberOf(b)
    ELSE IF "str" \in DOMAIN a /\ "str" \in DOMAIN b THEN a.str = b.str
    ELSE FALSE

\* value in scope, for a tuple scope
TupleIn(v, scope) == \E i \in 1..Len(scope) : PyEq(scope[i], v)

\* scope.index(value), counted from 0
TupleIndex(scope, v) ==
    (CHOOSE i \in 1..Len(scope) :
        /\ PyEq(scope[i], v)
        /\ \A j \in 1..(i - 1) : ~PyEq(scope[j], v)) - 1

\* Config.get_content(): False when the file is missing or is not JSON
get_content(file) ==
    IF file.kind \in {"missing", "invalid"} THEN [kind |-> "False"] ELSE file

\* Config.check_content(content): content[key] raises TypeError when
\* content is not a dictionary and KeyError when the key is missing
check_content(content) ==
    [key \in Range(SettingKeys) |->
        IF content.kind # "dict" THEN ConfigDefault[key]
        ELSE IF content.dict[key] = [none |-> TRUE] THEN ConfigDefault[key]
        ELSE IF TupleIn(content.dict[key], ConfigRange[key])
             THEN content.dict[key]
             ELSE ConfigDefault[key]]

\* the file written by Config.save(settings)
save(st) == [kind |-> "dict", dict |-> st]

\* Settings.change_setting(position, add): a negative index counts from
\* the end of the tuple, an index past the end raises IndexError
change_setting(st, position, add) ==
    LET scope  == ConfigRange[position]
        index  == TupleIndex(scope, st[position])
        modify == IF add THEN index + 1 ELSE index - 1
    IN  IF modify >= Len(scope) THEN {}
        ELSE {[st EXCEPT ![position] =
                  scope[IF modify < 0 THEN Len(scope) + modify + 1
                        ELSE modify + 1]]}

\* Gui.create_arrows: the arrow that calls function(position, add) is
\* animated, and so can be clicked
arrow_offered(st, position, add) ==
    LET scope == ConfigRange[position]
        value == TupleIndex(scope, st[position])
    IN  IF add THEN value < Len(scope) - 1 ELSE value > 0

(***************************************************************************)
(* Values of the session variables while a single function is studied.     *)
(***************************************************************************)
NoDirectory == [exists |-> FALSE, stems |-> {}]

\* no wave yet; beside figure and figures a wave carries the colour it
\* was constructed with, the number of colours pulled from self.color for
\* it, the number of waves created so far, the clock reading of its
\* creation, the number of play_sound calls made so far and the result of
\* the latest one
NoWave == [figure |-> "", figures |-> <<>>, color |-> [none |-> TRUE],
           id |-> 0, at |-> 0, pulls |-> 0, calls |-> 0, sound |-> "off"]

\* a display on which nothing has been drawn since it was cleared: id is
\* the number of the wave drawn, 0 for none
NoDisplay == [id |-> 0, drawn |-> <<>>]

\* no Summary object yet
NoSummary == [counted |-> <<>>, submitted |-> FALSE, screen |-> <<>>]

NoSession ==
    /\ mode = "none"
    /\ platform = <<>>
    /\ resolution = <<0, 0>>
    /\ images = NoDirectory
    /\ settings = <<>>
    /\ timer = <<>>
    /\ now = 0
    /\ tested = 0
    /\ elements = <<>>
    /\ counter = <<>>
    /\ wave = NoWave
    /\ spawned_at = 0
    /\ camera = 0
    /\ stopped = FALSE
    /\ history = <<>>
    /\ summary = NoSummary
    /\ display = NoDisplay
    /\ events = <<>>

(***************************************************************************)
(* SpecColor: calls of get_color on one colors.Random object.              *)
(***************************************************************************)
InitColor ==
    /\ pc = "color"
    /\ NoSession
    /\ color = "Grey"          \* Random.__init__
    /\ pulled = <<>>
    /\ arg = <<>>
    /\ ret = <<>>

GetColorCall ==
    /\ pc = "color"
    /\ Len(pulled) < MaxCalls
    /\ \E name \in get_color(color, Len(ColorNames)) :
          /\ color' = name
          /\ pulled' = Append(pulled, COLORS[name])
    /\ UNCHANGED <<pc, sessionVars, arg, ret>>

NextColor == GetColorCall

SpecColor == InitColor /\ [][NextColor]_vars

(***************************************************************************)
(* SpecPick: one call of pick(setting, amount).                            *)
(***************************************************************************)
Policies == {"Easy", "Medium", "Hard"}

InitPick ==
    /\ pc = "pick"
    /\ NoSession
    /\ color = "Grey"
    /\ pulled = <<>>
    /\ arg \in {[setting |-> s, amount |-> k]
                : s \in Policies, k \in 0..Len(ColorNames)}
    /\ ret = [none |-> TRUE]

PickCall ==
    /\ pc = "pick"
    /\ "none" \in DOMAIN ret
    /\ ret' \in pick(arg.setting, arg.amount, Len(ColorNames))
    /\ UNCHANGED <<pc, sessionVars, color, pulled, arg>>

NextPick == PickCall

SpecPick == InitPick /\ [][NextPick]_vars

(***************************************************************************)
(* Spec: one session, Game.__init__ from its line 85 on.  Init is the      *)
(* state after lines 77 to 84: settings read, timer created, elements      *)
(* selected, counter zeroed.                                               *)
(***************************************************************************)
\* the value time() returns when the timer is created
StartTime == 1000

Platforms == {<<"l", "i", "n", "u", "x">>}

SessionResolutions == {<<1200, 900>>}

\* what img/elements can hold
ImageDirs == {NoDirectory,
              [exists |-> TRUE, stems |-> {"cat"}],
              [exists |-> TRUE, stems |-> {"square"}],
              [exists |-> TRUE, stems |-> {"cat", "dog"}]}

FigureChoices == {2}

TimeChoices == {5, 10}

SpeedChoices == {1, 4}

SettingsChoices ==
    {[figures |-> f, time |-> t, speed |-> s, colors |-> c, sound |-> "Off"]
     : f \in FigureChoices, t \in TimeChoices, s \in SpeedChoices,
       c \in Policies}

\* the draws followed in a session; the figure type of a wave is always
\* drawn in full
SessionLim == [amount |-> MaxDraw, point |-> 1, fresh |-> 2,
               pull |-> MaxDraw, element |-> 1]

\* the moments at which the timer changes the course of a session
Thresholds(tm, m) ==
    {tm.start + tm.last, tm.start + tm.total}
    \cup (IF m = "Static"
          THEN {tm.start + k * tm.wave : k \in 1..(tm.total \div tm.wave)}
          ELSE {})

\* the values time() is followed for: the start, each threshold and the
\* Slack units after it
ClockReadings(tm, m) ==
    {tm.start} \cup
    {t \in {th + d : th \in Thresholds(tm, m), d \in 0..Slack} : t >= tm.start}

\* time() at the start of an iteration of the loop
time_after(t) == {u \in ClockReadings(timer, mode) : u >= t}

\* time() called again within the same iteration: the same value or the
\* next unit
time_within(t) == {u \in ClockReadings(timer, mode) : u >= t /\ u <= t + 1}

\* the state after lines 77 to 84 of Game.__init__, for the given classes
\* of session, monitors, stored settings and image directories
InitGame(modes, monitors, stored, dirs) ==
    /\ pc = "init"
    /\ mode \in modes
    /\ platform \in Platforms
    /\ resolution \in monitors
    /\ images \in (IF mode = "Static" THEN dirs ELSE {NoDirectory})
    /\ settings \in stored
    /\ timer = create_timer(settings, StartTime)
    /\ now = StartTime
    /\ tested = StartTime
    /\ color = "Grey"
    /\ elements \in (IF mode = "Static"
                     THEN Static_set_elements(settings, images, SessionLim.element)
                     ELSE Dynamic_set_elements(settings, SessionLim.element))
    /\ counter = [x \in DOMAIN elements |-> 0]
    /\ wave = NoWave
    /\ spawned_at = 0
    /\ camera = 0
    /\ stopped = FALSE
    /\ history = <<>>
    /\ summary = NoSummary
    /\ display = NoDisplay
    /\ events = <<>>
    /\ pulled = <<>>

InitSession(modes, monitors, stored, dirs) ==
    /\ InitGame(modes, monitors, stored, dirs)
    /\ arg = <<>>
    /\ ret = <<>>

Init ==
    InitSession({"Static", "Dynamic"}, SessionResolutions, SettingsChoices,
                ImageDirs)

\* Game.create_wave(function, *args), called when time() was t
CreateWave(t, position_z, lim) ==
    \E p \in pick_element(elements, color, lim.pull) :
      \E figs \in (IF mode = "Static"
                   THEN Wave2D(p.figure, p.color, resolution, lim)
                   ELSE Wave3D(p.figure, p.color, position_z, lim)) :
        \E outcome \in SoundOutcomes :
          /\ wave' = [figure |-> p.figure, figures |-> figs,
                      color |-> p.color, id |-> wave.id + 1, at |-> t,
                      pulls |-> p.pulls, calls |-> wave.calls + 1,
                      sound |-> play_sound(settings, outcome)]
          /\ counter' = count_wave(counter, p.figure, figs)
          /\ color' = p.active
          /\ history' = Append(history,
                               [figure |-> p.figure, len |-> Len(figs),
                                sound |-> play_sound(settings, outcome)])

\* self.wave(): the wave is drawn
Redraw ==
    /\ wave' = [wave EXCEPT !.figures = Wave_call(wave.figures)[1]]
    /\ display' = [id |-> wave.id, drawn |-> Wave_call(wave.figures)[2]]
    /\ UNCHANGED <<counter, color, history>>

\* prepare_environment without the call of create_wave
PrepareEnvironment_no_wave(lim) ==
    /\ pc = "init"
    /\ pc' = "game"
    /\ timer' = (IF mode = "Static"
                 THEN Merge(timer, [interval |-> timer.start]) ELSE timer)
    /\ spawned_at' = (IF mode = "Static" THEN spawned_at ELSE 0 - 10)
    /\ UNCHANGED <<mode, platform, resolution, images, settings, now, tested,
                   elements, camera, stopped, summary, display, events,
                   pulled, arg, ret, wave, counter, color, history>>

\* Static.prepare_environment() and Dynamic.prepare_environment()
PrepareEnvironment(lim) ==
    /\ pc = "init"
    /\ pc' = "game"
    /\ IF mode = "Static"
       THEN /\ timer' = Merge(timer, [interval |-> timer.start])
            /\ spawned_at' = spawned_at
            /\ CreateWave(now, 0, lim)
       ELSE /\ timer' = timer
            /\ spawned_at' = 0 - 10
            /\ CreateWave(now, 0 - 10, lim)
    /\ UNCHANGED <<mode, platform, resolution, images, settings, now, tested,
                   elements, camera, stopped, summary, display, events,
                   pulled, arg, ret>>

\* Static.run_game() in an iteration whose loop test read t1
Static_run_game(t1, lim) ==
    /\ UNCHANGED <<spawned_at, camera>>
    /\ \E t2 \in time_within(t1) :
         IF wave_expired(timer, t2)
         THEN \E t3 \in time_within(t2) :
                /\ now' = t3
                /\ IF is_wave_finished(TRUE, timer, t3)
                   THEN /\ timer' = [timer EXCEPT !.interval = @ + timer.wave]
                        /\ display' = NoDisplay     \* screen.fill((0, 0, 0))
                        /\ CreateWave(t3, 0, lim)
                   ELSE /\ timer' = timer
                        /\ Redraw
         ELSE /\ now' = t2
              /\ timer' = timer
              /\ Redraw

\* Dynamic.run_game() in an iteration whose loop test read t1
Dynamic_run_game(t1, lim) ==
    LET camera_z == move_view(camera + 1, settings, platform)
    IN  /\ camera' = camera + 1
        /\ timer' = timer
        /\ IF camera_passed(camera_z, spawned_at)
           THEN \E t3 \in time_within(t1) :
                  /\ now' = t3
                  /\ IF is_wave_finished(TRUE, timer, t3)
                     THEN /\ display' = NoDisplay      \* glClear of move_view
                          /\ CreateWave(t3, camera_z, lim)
                          /\ spawned_at' = camera_z
                     ELSE /\ Redraw
                          /\ spawned_at' = spawned_at
           ELSE /\ now' = t1
                /\ Redraw
                /\ spawned_at' = spawned_at

\* the pygame events one iteration of the loop can find
EventChoices == {<<>>, <<"ESCAPE">>, <<"QUIT">>, <<"ESCAPE", "QUIT">>}

\* the event loop without the test of the class name: Escape stops the
\* loop of the main menu too
RECURSIVE HandleEvents_no_class(_, _, _)
HandleEvents_no_class(batch, owner, sofar) ==
    IF batch = <<>> THEN sofar
    ELSE IF Head(batch) = "QUIT" THEN "exit"
    ELSE IF Head(batch) = "ESCAPE"
         THEN HandleEvents_no_class(Tail(batch), owner, "stop")
    ELSE HandleEvents_no_class(Tail(batch), owner, sofar)

\* the event loop of Handler.__call__ for a function of class owner:
\* "exit" (sys.exit), "stop" (self.stop() called) or "none"
RECURSIVE HandleEvents(_, _, _)
HandleEvents(batch, owner, sofar) ==
    IF batch = <<>> THEN sofar
    ELSE IF Head(batch) = "QUIT" THEN "exit"
    ELSE IF Head(batch) = "ESCAPE"
         THEN IF owner = "Menu" THEN "exit"
              ELSE HandleEvents(Tail(batch), owner, "stop")
    ELSE HandleEvents(Tail(batch), owner, sofar)

\* one iteration of the loop of Handler.__call__ that runs run_game
Tick(lim) ==
    /\ pc = "game"
    /\ camera < MaxTicks
    /\ \E t1 \in time_after(now) :
         /\ Handler_condition(stopped, timer, t1)
         /\ tested' = t1
         /\ \E batch \in EventChoices :
              /\ HandleEvents(batch, "method", "none") # "exit"
              /\ stopped' = (HandleEvents(batch, "method", "none") = "stop")
              /\ events' = batch
         /\ IF mode = "Static" THEN Static_run_game(t1, lim)
                               ELSE Dynamic_run_game(t1, lim)
    /\ UNCHANGED <<pc, mode, platform, resolution, images, settings, elements,
                   summary, pulled, arg, ret>>

\* one iteration of the loop that ends in sys.exit()
Quit ==
    /\ pc = "game"
    /\ \E t1 \in time_after(now) :
         /\ Handler_condition(stopped, timer, t1)
         /\ tested' = t1
         /\ now' = t1
    /\ \E batch \in EventChoices :
         /\ HandleEvents(batch, "method", "none") = "exit"
         /\ events' = batch
    /\ pc' = "exit"
    /\ UNCHANGED <<mode, platform, resolution, images, settings, timer, color,
                   elements, counter, wave, spawned_at, camera, stopped,
                   history, summary, display, pulled, arg, ret>>

\* the loop test fails: the loop ends and gui.Summary(self.counter) starts
EndLoop ==
    /\ pc = "game"
    /\ IF stopped
       THEN /\ ~Handler_condition(stopped, timer, now)
            /\ UNCHANGED <<now, tested>>
       ELSE \E t1 \in time_after(now) :
              /\ ~Handler_condition(stopped, timer, t1)
              /\ tested' = t1
              /\ now' = t1
    /\ pc' = "summary"
    /\ UNCHANGED <<mode, platform, resolution, images, settings, timer, color,
                   elements, counter, wave, spawned_at, camera, stopped,
                   history, summary, display, events, pulled, arg, ret>>

Next ==
    \/ PrepareEnvironment(SessionLim)
    \/ Tick(SessionLim)
    \/ Quit
    \/ EndLoop

Spec == Init /\ [][Next]_vars

(***************************************************************************)
(* SpecWave: the waves of a session spawned one after the other, the       *)
(* number of instances drawn in full.                                      *)
(***************************************************************************)
WaveLim == [amount |-> Len(amount_range), point |-> 1, fresh |-> 1,
            pull |-> 1, element |-> 1]

\* camera positions at which a Dynamic wave is replaced
PositionChoices == {0 - 111, 0 - 212}

\* Static.spawn_new_wave() and Dynamic.spawn_new_wave(z_position)
SpawnNewWave(lim) ==
    /\ pc = "game"
    /\ wave.id < MaxWaves
    /\ IF mode = "Static"
       THEN /\ CreateWave(now, 0, lim)
            /\ spawned_at' = spawned_at
            /\ display' = NoDisplay               \* screen.fill((0, 0, 0))
       ELSE \E z \in PositionChoices :
              /\ CreateWave(now, z, lim)
              /\ spawned_at' = z
              /\ display' = display
    /\ UNCHANGED <<pc, mode, platform, resolution, images, settings, timer,
                   now, tested, elements, camera, stopped, summary, events,
                   pulled, arg, ret>>

NextWave ==
    \/ PrepareEnvironment(WaveLim)
    \/ SpawnNewWave(WaveLim)

\* the sessions of Init with the sound off and on
WaveSettings ==
    {[st EXCEPT !.sound = sound]
     : st \in SettingsChoices, sound \in {"Off", "On"}}

InitWave ==
    InitSession({"Static", "Dynamic"}, SessionResolutions, WaveSettings,
                ImageDirs)

SpecWave == InitWave /\ [][NextWave]_vars

(***************************************************************************)
(* SpecPoints: the first wave of a Static session on several monitors,     *)
(* the number of instances drawn in full and each position drawn among     *)
(* PointDraw grid points.                                                  *)
(***************************************************************************)
Resolutions == {<<1200, 900>>, <<1366, 768>>}

PointSettings ==
    {[figures |-> 2, time |-> 60, speed |-> 2, colors |-> c, sound |-> "Off"]
     : c \in {"Easy"}}

PointLim == [amount |-> Len(amount_range), point |-> PointDraw, fresh |-> 1,
             pull |-> 1, element |-> 1]

InitPoints ==
    InitSession({"Static"}, Resolutions, PointSettings, {NoDirectory})

NextPoints == PrepareEnvironment(PointLim)

SpecPoints == InitPoints /\ [][NextPoints]_vars

(***************************************************************************)
(* SpecSettings: the settings file from any stored content, through the    *)
(* settings menu and to the start of a session.  arg is the content of     *)
(* settings.json and ret the dictionary Config.settings.                   *)
(***************************************************************************)
\* values that a key of the stored dictionary can have
StoredValues ==
    [figures |-> {[none |-> TRUE], [int |-> 2], [int |-> 7], [float |-> 2],
                  [str |-> "2"]},
     time    |-> {[none |-> TRUE], [int |-> 5], [int |-> 7], [int |-> 65]},
     speed   |-> {[none |-> TRUE], [int |-> 4], [int |-> 0], [bool |-> TRUE]},
     colors  |-> {[none |-> TRUE], [str |-> "Hard"], [str |-> "hard"],
                  [int |-> 1]},
     sound   |-> {[none |-> TRUE], [str |-> "On"], [bool |-> TRUE]}]

StoredFiles ==
    {[kind |-> "missing"], [kind |-> "invalid"], [kind |-> "other"]}
    \cup {save(d) : d \in [figures : StoredValues.figures,
                           time    : StoredValues.time,
                           speed   : StoredValues.speed,
                           colors  : StoredValues.colors,
                           sound   : StoredValues.sound]}

InitSettings ==
    /\ pc = "menu"
    /\ NoSession
    /\ color = "Grey"
    /\ pulled = <<>>
    /\ arg \in StoredFiles
    /\ ret = <<>>

\* Config(): the file is read, checked and written back
ConfigInit ==
    /\ ret' = check_content(get_content(arg))
    /\ arg' = save(ret')

\* Menu: 'Settings' is clicked, Settings.__init__ runs
OpenSettings ==
    /\ pc = "menu"
    /\ pc' = "settings"
    /\ ConfigInit
    /\ UNCHANGED <<sessionVars, color, pulled>>

\* Settings.__call__: an animated arrow is clicked; the frame ends with
\* config.save(config.settings)
ClickArrow ==
    /\ pc = "settings"
    /\ \E position \in Range(SettingKeys), add \in BOOLEAN :
         /\ arrow_offered(ret, position, add)
         /\ ret' \in change_setting(ret, position, add)
    /\ arg' = save(ret')
    /\ UNCHANGED <<pc, sessionVars, color, pulled>>

\* Settings: 'Back' is clicked, run.stop()
CloseSettings ==
    /\ pc = "settings"
    /\ pc' = "menu"
    /\ UNCHANGED <<sessionVars, color, pulled, arg, ret>>

\* Menu: a game is clicked, line 79 of Game.__init__ reads the settings
ReadSettings ==
    /\ pc = "menu"
    /\ pc' = "read"
    /\ ConfigInit
    /\ UNCHANGED <<sessionVars, color, pulled>>

\* the session and its summary are over, the menu is shown again
BackToMenu ==
    /\ pc = "read"
    /\ pc' = "menu"
    /\ UNCHANGED <<sessionVars, color, pulled, arg, ret>>

NextSettings ==
    \/ OpenSettings
    \/ ClickArrow
    \/ CloseSettings
    \/ ReadSettings
    \/ BackToMenu

SpecSettings == InitSettings /\ [][NextSettings]_vars

(***************************************************************************)
(* SpecSummary: the gui.Summary object, from the counter it receives to    *)
(* the player leaving it.  Summary.result is the dictionary object         *)
(* Game.counter itself.                                                    *)
(***************************************************************************)
\* one row of Summary.__call__ marking a count that is not below the
\* true one as correct
summary_row_at_least(result, counted, submitted, position) ==
    IF ~submitted
    THEN [text |-> counted[position], mark |-> "none", shown |-> <<>>]
    ELSE IF counted[position] >= result[position]
    THEN [text |-> counted[position], mark |-> "correct", shown |-> <<>>]
    ELSE [text |-> counted[position], mark |-> "incorrect",
          shown |-> <<result[position]>>]

\* one row of Summary.__call__: the count entered, the colour of
\* get_rate_colors it is drawn in, and the true count when it is drawn
summary_row(result, counted, submitted, position) ==
    IF ~submitted
    THEN [text |-> counted[position], mark |-> "none", shown |-> <<>>]
    ELSE IF result[position] = counted[position]
    THEN [text |-> counted[position], mark |-> "correct", shown |-> <<>>]
    ELSE [text |-> counted[position], mark |-> "incorrect",
          shown |-> <<result[position]>>]

\* create_arrows with <= for < in the test of the right arrow
create_arrows_inclusive(value, left_condition, right_condition, add) ==
    IF add THEN value <= right_condition ELSE value > left_condition

\* Gui.create_arrows(point, position, gap, value, left_condition,
\* right_condition, function): the arrow that calls function(position)
\* (add) or function(position, False) is animated, and so can be clicked
create_arrows(value, left_condition, right_condition, add) ==
    IF add THEN value < right_condition ELSE value > left_condition

\* Summary.change_counter(position, add)
change_counter(counted, position, add) ==
    [counted EXCEPT ![position] = @ + (IF add THEN 1 ELSE 0 - 1)]

\* the counters a session can hand over
ResultChoices ==
    UNION {[keys -> 0..MaxCount] : keys \in {{"square", "cat"}, {"Cube"}}}

InitSummary ==
    /\ pc = "summary"
    /\ mode = "none"
    /\ platform = <<>>
    /\ resolution = <<0, 0>>
    /\ images = NoDirectory
    /\ settings = <<>>
    /\ timer = <<>>
    /\ now = 0
    /\ tested = 0
    /\ elements = <<>>
    /\ counter \in ResultChoices
    /\ wave = NoWave
    /\ spawned_at = 0
    /\ camera = 0
    /\ stopped = FALSE
    /\ history = <<>>
    /\ summary = NoSummary
    /\ display = NoDisplay
    /\ events = <<>>
    /\ color = "Grey"
    /\ pulled = <<>>
    /\ arg = <<>>
    /\ ret = <<>>

summaryRest == <<mode, platform, resolution, images, settings, timer, now,
                 tested, elements, wave, spawned_at, camera, stopped, history,
                 display, events, color, pulled, arg, ret>>

\* Summary.__init__(result)
SummaryInit ==
    /\ pc = "summary"
    /\ pc' = "score"
    /\ summary' = [counted   |-> [key \in DOMAIN counter |-> 0],
                   submitted |-> FALSE,
                   screen    |-> <<>>]
    /\ UNCHANGED <<counter, summaryRest>>

\* the rows that one call of Summary.__call__ draws
DrawRows ==
    [position \in DOMAIN summary.counted |->
        summary_row(counter, summary.counted, summary.submitted, position)]

\* Summary.__call__ with the mouse over nothing that is animated
SummaryFrame ==
    /\ pc = "score"
    /\ summary' = [summary EXCEPT !.screen = DrawRows]
    /\ UNCHANGED <<pc, counter, summaryRest>>

\* Summary.__call__ with an animated arrow clicked
SummaryArrow ==
    /\ pc = "score"
    /\ ~summary.submitted
    /\ \E position \in DOMAIN summary.counted, add \in BOOLEAN :
         /\ create_arrows(summary.counted[position], 0, 99, add)
         /\ add => summary.counted[position] < MaxEntry
         /\ summary' = [summary EXCEPT
                          !.screen = DrawRows,
                          !.counted = change_counter(@, position, add)]
    /\ UNCHANGED <<pc, counter, summaryRest>>

\* Summary.__call__ with 'Submit' clicked: Summary.submit()
SummarySubmit ==
    /\ pc = "score"
    /\ ~summary.submitted
    /\ summary' = [summary EXCEPT !.screen = DrawRows, !.submitted = TRUE]
    /\ UNCHANGED <<pc, counter, summaryRest>>

\* Summary.__call__ with 'Back' clicked, or Escape pressed: run.stop()
SummaryBack ==
    /\ pc = "score"
    /\ pc' = "menu"
    /\ UNCHANGED <<summary, counter, summaryRest>>

NextSummary ==
    \/ SummaryInit
    \/ SummaryFrame
    \/ SummaryArrow
    \/ SummarySubmit
    \/ SummaryBack

SpecSummary == InitSummary /\ [][NextSummary]_vars

(***************************************************************************)
(* SpecTimer: the timer of a session for every allowed time and speed,     *)
(* from its construction through the statements that write it: line 215   *)
(* of Static.prepare_environment and line 225 of Static.run_game.          *)
(***************************************************************************)
TimerSettings ==
    {[figures |-> 2, time |-> 5 * t, speed |-> s, colors |-> "Easy",
      sound |-> "Off"] : t \in 1..12, s \in 1..4}

TimerLim == [amount |-> 1, point |-> 1, fresh |-> 1, pull |-> 1, element |-> 1]

InitTimer ==
    InitSession({"Static", "Dynamic"}, SessionResolutions, TimerSettings,
                {NoDirectory})

\* self.timer['interval'] += self.timer['wave']: run_game reaches the line
\* with  time() > interval + wave  and  last > time() - start
AdvanceInterval ==
    /\ pc = "game"
    /\ mode = "Static"
    /\ timer.interval + timer.wave - timer.start < timer.last
    /\ timer' = [timer EXCEPT !.interval = @ + timer.wave]
    /\ UNCHANGED <<pc, mode, platform, resolution, images, settings, now,
                   tested, color, elements, counter, wave, spawned_at, camera,
                   stopped, history, summary, display, events, pulled, arg,
                   ret>>

NextTimer ==
    \/ PrepareEnvironment(TimerLim)
    \/ AdvanceInterval

SpecTimer == InitTimer /\ [][NextTimer]_vars

(***************************************************************************)
(* SpecCount: the 2D sessions in which every iteration of the loop finds   *)
(* the wave expired and every wave is of the first figure type and of the  *)
(* largest size get_amount can return.                                     *)
(***************************************************************************)
CountLim == [amount |-> Len(amount_range), point |-> 1, fresh |-> 1,
             pull |-> 1, element |-> 1]

InitCount ==
    InitSession({"Static"}, SessionResolutions, TimerSettings, {NoDirectory})

\* the wave just created is one of those followed
Largest ==
    /\ wave.figure = Keys(DOMAIN elements)[1]
    /\ Len(wave.figures) = amount_range[Len(amount_range)]

CountPrepare == PrepareEnvironment(CountLim) /\ Largest'

CountTick == Tick(CountLim) /\ wave'.id = wave.id + 1 /\ Largest'

NextCount ==
    \/ CountPrepare
    \/ CountTick
    \/ EndLoop

SpecCount == InitCount /\ [][NextCount]_vars

(***************************************************************************)
(* SpecRates: the same session run twice, with the same settings and the   *)
(* same elements, at two different numbers of iterations of the loop per   *)
(* unit of the clock.  arg holds the rate of the current run, the number   *)
(* of iterations made and the elapsed times at which it replaced a wave;   *)
(* ret holds what the first run did.                                       *)
(***************************************************************************)
\* iterations of the loop per unit of the clock: the first and the
\* second run
RateChoices == {<<2, 1>>, <<3, 2>>}

RateLim == [amount |-> 1, point |-> 1, fresh |-> 1, pull |-> 1, element |-> 1]

InitRates ==
    /\ InitGame({"Static", "Dynamic"}, SessionResolutions, SettingsChoices,
                {NoDirectory})
    /\ \E r \in RateChoices :
          arg = [rate |-> r[1], next |-> r[2], ticks |-> 0, spawns |-> <<>>,
                 run |-> 1]
    /\ ret = <<>>

\* time() in the iteration number n of a run
RateClock(n) == timer.start + n \div arg.rate

\* one iteration of the loop of Handler.__call__, every time() of the
\* iteration returning the same value
RateTick ==
    /\ pc = "game"
    /\ LET t == RateClock(arg.ticks + 1)
           camera_z == move_view(camera + 1, settings, platform)
       IN  /\ Handler_condition(stopped, timer, t)
           /\ now' = t
           /\ tested' = t
           /\ IF mode = "Static"
              THEN /\ UNCHANGED <<camera, spawned_at>>
                   /\ IF is_wave_finished(wave_expired(timer, t), timer, t)
                      THEN /\ timer' = [timer EXCEPT
                                           !.interval = @ + timer.wave]
                           /\ display' = NoDisplay
                           /\ CreateWave(t, 0, RateLim)
                      ELSE /\ timer' = timer
                           /\ Redraw
              ELSE /\ camera' = camera + 1
                   /\ timer' = timer
                   /\ IF is_wave_finished(camera_passed(camera_z, spawned_at),
                                          timer, t)
                      THEN /\ display' = NoDisplay
                           /\ CreateWave(t, camera_z, RateLim)
                           /\ spawned_at' = camera_z
                      ELSE /\ Redraw
                           /\ spawned_at' = spawned_at
           /\ arg' = [arg EXCEPT
                        !.ticks = @ + 1,
                        !.spawns = IF wave'.id # wave.id
                                   THEN Append(@, t - timer.start) ELSE @]
    /\ UNCHANGED <<pc, mode, platform, resolution, images, settings, elements,
                   stopped, summary, events, pulled, ret>>

\* the loop test fails: the run is over
RateEnd ==
    /\ pc = "game"
    /\ LET t == RateClock(arg.ticks + 1)
       IN  /\ ~Handler_condition(stopped, timer, t)
           /\ now' = t
           /\ tested' = t
    /\ pc' = "summary"
    /\ UNCHANGED <<mode, platform, resolution, images, settings, timer, color,
                   elements, counter, wave, spawned_at, camera, stopped,
                   history, summary, display, events, pulled, arg, ret>>

\* the game is started again from the menu: lines 77 to 84 of
\* Game.__init__ with the settings and the elements of the first run
RateRestart ==
    /\ pc = "summary"
    /\ arg.run = 1
    /\ pc' = "init"
    /\ ret' = [spawns |-> arg.spawns, ended |-> now - timer.start,
               waves |-> wave.id]
    /\ arg' = [rate |-> arg.next, next |-> arg.rate, ticks |-> 0,
               spawns |-> <<>>, run |-> 2]
    /\ timer' = create_timer(settings, StartTime)
    /\ now' = StartTime
    /\ tested' = StartTime
    /\ color' = "Grey"
    /\ counter' = [x \in DOMAIN elements |-> 0]
    /\ wave' = NoWave
    /\ spawned_at' = 0
    /\ camera' = 0
    /\ history' = <<>>
    /\ display' = NoDisplay
    /\ UNCHANGED <<mode, platform, resolution, images, settings, elements,
                   stopped, summary, events, pulled>>

NextRates ==
    \/ PrepareEnvironment(RateLim)
    \/ RateTick
    \/ RateEnd
    \/ RateRestart

SpecRates == InitRates /\ [][NextRates]_vars

(***************************************************************************)
(* SpecEscape: the Handler loops of the application, from a session        *)
(* started in the main menu to its Summary, back to the main menu and into *)
(* the settings menu.  arg is the content of settings.json and ret the     *)
(* dictionary Config.settings of the settings menu.                        *)
(***************************************************************************)
EscapeSettings ==
    {[figures |-> 2, time |-> 5, speed |-> 4, colors |-> "Easy",
      sound |-> "Off"]}

EscapeLim == [amount |-> 1, point |-> 1, fresh |-> 1, pull |-> 1,
              element |-> 1]

\* the file that Config() of line 79 of Game.__init__ has written back
InitEscape ==
    /\ InitGame({"Static", "Dynamic"}, SessionResolutions, EscapeSettings,
                {NoDirectory})
    /\ arg = save([figures |-> [int |-> settings.figures],
                   time    |-> [int |-> settings.time],
                   speed   |-> [int |-> settings.speed],
                   colors  |-> [str |-> settings.colors],
                   sound   |-> [str |-> settings.sound]])
    /\ ret = <<>>

\* what the player clicks during one frame of a menu
SummaryClicks == {"none", "Submit", "Back"}

MenuClicks == {"none", "Settings", "Exit"}

SettingsClicks == {"none", "Back"}

\* one iteration of the loop of Handler.__call__ that runs Summary.__call__
SummaryLoop ==
    /\ pc = "score"
    /\ \E batch \in EventChoices, click \in SummaryClicks :
         LET r == HandleEvents(batch, "Summary", "none")
         IN  /\ click = "Submit" => ~summary.submitted
             /\ events' = batch
             /\ IF r = "exit"
                THEN /\ pc' = "exit"
                     /\ summary' = summary
                ELSE /\ summary' =
                          [summary EXCEPT
                             !.screen = DrawRows,
                             !.submitted = (@ \/ click = "Submit")]
                     /\ pc' = IF r = "stop" \/ click = "Back"
                              THEN "menu" ELSE "score"
    /\ UNCHANGED <<mode, platform, resolution, images, settings, timer, now,
                   tested, color, elements, counter, wave, spawned_at, camera,
                   stopped, history, display, pulled, arg, ret>>

\* one iteration of the loop of Handler.__call__ that runs Menu.__call__;
\* a click on 'Settings' runs Settings.__init__, a click on 'Exit'
\* Menu.close(); when the loop is stopped Menu() returns and the program
\* is over
MenuLoop ==
    /\ pc = "menu"
    /\ \E batch \in EventChoices, click \in MenuClicks :
         LET r == HandleEvents(batch, "Menu", "none")
         IN  /\ events' = batch
             /\ IF r = "exit" \/ click = "Exit"
                THEN pc' = "exit" /\ UNCHANGED <<arg, ret>>
                ELSE IF click = "Settings"
                THEN pc' = "settings" /\ ConfigInit
                ELSE /\ pc' = IF r = "stop" THEN "done" ELSE "menu"
                     /\ UNCHANGED <<arg, ret>>
    /\ UNCHANGED <<mode, platform, resolution, images, settings, timer, now,
                   tested, color, elements, counter, wave, spawned_at, camera,
                   stopped, history, summary, display, pulled>>

\* one iteration of the loop of Handler.__call__ that runs
\* Settings.__call__, which ends with config.save(config.settings)
SettingsLoop ==
    /\ pc = "settings"
    /\ \E batch \in EventChoices, click \in SettingsClicks :
         LET r == HandleEvents(batch, "Settings", "none")
         IN  /\ events' = batch
             /\ IF r = "exit"
                THEN pc' = "exit" /\ arg' = arg
                ELSE /\ arg' = save(ret)
                     /\ pc' = IF r = "stop" \/ click = "Back"
                              THEN "menu" ELSE "settings"
    /\ UNCHANGED <<mode, platform, resolution, images, settings, timer, now,
                   tested, color, elements, counter, wave, spawned_at, camera,
                   stopped, history, summary, display, pulled, ret>>

NextEscape ==
    \/ PrepareEnvironment(EscapeLim)
    \/ Tick(EscapeLim)
    \/ Quit
    \/ EndLoop
    \/ SummaryInit
    \/ SummaryLoop
    \/ MenuLoop
    \/ SettingsLoop

SpecEscape == InitEscape /\ [][NextEscape]_vars

(***************************************************************************)
(* Claims about a session.                                                 *)
(***************************************************************************)
\* time elapsed at the clock reading t
Elapsed(t) == t - timer.start

\* sum of len(wave) over the waves of type T in a wave history
RECURSIVE SumLen(_, _)
SumLen(h, T) ==
    IF h = <<>> THEN 0
    ELSE (IF Head(h).figure = T THEN Head(h).len ELSE 0) + SumLen(Tail(h), T)

InSession == pc \in {"init", "game", "summary", "exit"}

(***************************************************************************)
(* C1: for every selected figure type T, counter[T] is the sum of          *)
(* len(wave) over the waves of type T spawned so far; it is 0 before the   *)
(* first wave, never decreases, and a spawn of one type leaves the         *)
(* counters of the other types unchanged.                                  *)
(***************************************************************************)
C1_CounterState ==
    InSession =>
        /\ DOMAIN counter = DOMAIN elements
        /\ \A T \in DOMAIN counter : counter[T] = SumLen(history, T)
        /\ pc = "init" => \A T \in DOMAIN counter : counter[T] = 0

C1_CounterStep ==
    InSession =>
        /\ \A T \in DOMAIN counter : counter'[T] >= counter[T]
        /\ wave'.id # wave.id =>
              \A T \in DOMAIN counter :
                  T # wave'.figure => counter'[T] = counter[T]

C1_Counter == [](C1_CounterState) /\ [][C1_CounterStep]_vars

C1_Witness ==
    /\ pc = "game"
    /\ Len(history) >= 2
    /\ history[1].figure # history[2].figure
    /\ history[2].len >= 2

(***************************************************************************)
(* C2 as stated: the loop ends only at a loop test at which the elapsed    *)
(* time has reached the total budget.                                      *)
(***************************************************************************)
C2_Original == pc = "summary" => Elapsed(tested) >= timer.total

(***************************************************************************)
(* C2 amended: an iteration of the loop runs only if its loop test read    *)
(* an elapsed time below the total budget and Escape was not pressed       *)
(* before; the loop ends at the first loop test at which the elapsed time  *)
(* has reached the total budget, or earlier at the loop test that follows  *)
(* an iteration in which Escape was pressed, whatever the wave is.         *)
(***************************************************************************)
C2_EndingStep ==
    /\ (pc = "game" /\ pc' = "game") =>
          (~stopped /\ Elapsed(tested') < timer.total)
    /\ (pc = "game" /\ pc' = "summary") =>
          (stopped \/ Elapsed(tested') >= timer.total)
    /\ (pc = "game" /\ ~stopped /\ Elapsed(now) >= timer.total) =>
          pc' # "game"

C2_Ending == [][C2_EndingStep]_vars

C2_Witness ==
    /\ pc = "summary"
    /\ ~stopped
    /\ Elapsed(tested) = timer.total
    /\ wave.id >= 2

(***************************************************************************)
(* C3: once the elapsed time has reached the last-spawn cutoff, no         *)
(* iteration of the loop replaces the wave: wave and counter stay as they  *)
(* are; with a cutoff that is not positive the first wave is never         *)
(* replaced.                                                               *)
(***************************************************************************)
C3_StableStep ==
    (pc = "game" /\ Elapsed(now) >= timer.last) =>
        (wave' = wave /\ counter' = counter)

C3_FirstWaveKept == (InSession /\ timer.last <= 0) => wave.id <= 1

C3_LastWaveStable == [][C3_StableStep]_vars /\ [](C3_FirstWaveKept)

\* an iteration at or after the cutoff has found the wave expired
C3_Witness ==
    /\ pc = "game"
    /\ Elapsed(tested) >= timer.last
    /\ IF mode = "Static" THEN wave_expired(timer, tested)
       ELSE camera_passed(move_view(camera, settings, platform), spawned_at)

C5_InFinalWindow ==
    /\ pc = "game"
    /\ wave.id >= 1
    /\ Elapsed(wave.at) > timer.total - timer.wave

C5_Original == [][C5_InFinalWindow => wave'.id = wave.id]_vars

(***************************************************************************)
(* C8: a wave of a Static session has 1 to 9 instances and a wave of a     *)
(* Dynamic session 2 to 6; the instances of a wave all have the figure     *)
(* type of the wave, which is one of the selected elements.                *)
(***************************************************************************)
C8_WaveSize ==
    (InSession /\ wave.id >= 1) =>
        /\ mode = "Static" => (1 <= Len(wave.figures) /\ Len(wave.figures) <= 9)
        /\ mode = "Dynamic" => (2 <= Len(wave.figures) /\ Len(wave.figures) <= 6)
        /\ \A i \in 1..Len(wave.figures) : wave.figures[i].figure = wave.figure
        /\ wave.figure \in DOMAIN elements

C8_Witness ==
    /\ pc = "game"
    /\ mode = "Dynamic"
    /\ wave.id = 2
    /\ Len(wave.figures) = 6
    /\ history[1].len = 2

(***************************************************************************)
(* C9: the midpoints of the instances of a 2D wave are pairwise distinct   *)
(* and each is one of the 9 grid midpoints of the resolution; for          *)
(* (1200, 900) the grid is {200, 600, 1000} x {150, 450, 750} and the      *)
(* figure size is 75.                                                      *)
(***************************************************************************)
C9_Grid(res) ==
    {<<x, y>> : x \in {res[1] \div 6, res[1] \div 2, (5 * res[1]) \div 6},
                y \in {res[2] \div 6, res[2] \div 2, (5 * res[2]) \div 6}}

C9_MidPoints ==
    (InSession /\ wave.id >= 1 /\ mode = "Static") =>
        /\ \A i, j \in 1..Len(wave.figures) :
              i # j => wave.figures[i].mid_point # wave.figures[j].mid_point
        /\ \A i \in 1..Len(wave.figures) :
              wave.figures[i].mid_point \in C9_Grid(resolution)
        /\ Cardinality(C9_Grid(resolution)) = 9
        /\ resolution = <<1200, 900>> =>
              \A i \in 1..Len(wave.figures) :
                 /\ wave.figures[i].mid_point \in
                       {<<x, y>> : x \in {200, 600, 1000}, y \in {150, 450, 750}}
                 /\ wave.figures[i].size = 75

C9_Witness ==
    /\ pc = "game"
    /\ resolution = <<1200, 900>>
    /\ Len(wave.figures) = 9
    /\ wave.figures[1].mid_point = <<200, 450>>
    /\ wave.figures[9].mid_point = <<1000, 750>>

(***************************************************************************)
(* C10 as stated: the selected figure types, which are the keys of the     *)
(* counter, are exactly settings.figures distinct types.                   *)
(***************************************************************************)
C10_Original ==
    InSession =>
        /\ DOMAIN counter = DOMAIN elements
        /\ Cardinality(DOMAIN elements) = settings.figures

(***************************************************************************)
(* C11 as stated: in a 2D session with m available images and n            *)
(* configured figures, if m < n the selected elements are all m images     *)
(* plus n - m geometric figure types distinct from the images; if m >= n   *)
(* they are n images and no geometric figure; with no image available      *)
(* they are n geometric figures.                                           *)
(***************************************************************************)
C11_Images == {k \in DOMAIN elements : IsSurface(elements[k])}

C11_Original ==
    (InSession /\ mode = "Static") =>
        LET stems == DOMAIN get_images(images)
            m     == Cardinality(stems)
            n     == settings.figures
            geo   == (DOMAIN elements) \ C11_Images
        IN  IF m < n
            THEN /\ C11_Images = stems
                 /\ Cardinality(geo) = n - m
                 /\ geo \subseteq Range(Figures2D)
                 /\ geo \cap stems = {}
            ELSE /\ Cardinality(C11_Images) = n
                 /\ C11_Images \subseteq stems
                 /\ geo = {}

(***************************************************************************)
(* C12: with the Easy policy every instance of every wave of a figure      *)
(* type that is not an image is drawn in the one colour assigned to the    *)
(* type at the start of the session, the assignment never changes, and     *)
(* two different selected types never have the same colour.                *)
(***************************************************************************)
\* the colour in which an instance shows the colour c of its type
C12_Shown(c) == IF mode = "Static" THEN [rgb255 |-> convert(c.rgb)] ELSE c

C12_Colored == {k \in DOMAIN elements : ~IsSurface(elements[k])}

C12_State ==
    (InSession /\ settings.colors = "Easy") =>
        /\ \A k \in C12_Colored : DOMAIN elements[k] = {"rgb"}
        /\ \A k, l \in C12_Colored :
              k # l => /\ elements[k] # elements[l]
                       /\ C12_Shown(elements[k]) # C12_Shown(elements[l])
        /\ (wave.id >= 1 /\ wave.figure \in C12_Colored) =>
              \A i \in 1..Len(wave.figures) :
                  wave.figures[i].color = C12_Shown(elements[wave.figure])

C12_Step == InSession => elements' = elements

C12_EasyColors == [](C12_State) /\ [][C12_Step]_vars

\* a type has had two waves, the second of several instances
C12_Witness ==
    /\ pc = "game"
    /\ settings.colors = "Easy"
    /\ Cardinality(C12_Colored) = 2
    /\ Len(history) >= 3
    /\ history[1].figure = history[3].figure
    /\ history[2].figure # history[3].figure
    /\ Len(wave.figures) >= 2

(***************************************************************************)
(* C13 as stated: with the Medium policy every wave spawn pulls exactly    *)
(* one colour from the Random object of the session and every instance of  *)
(* the wave has that colour.                                               *)
(***************************************************************************)
C13_Original ==
    (InSession /\ settings.colors = "Medium" /\ wave.id >= 1) =>
        /\ wave.pulls = 1
        /\ \A i \in 1..Len(wave.figures) :
              wave.figures[i].color = C12_Shown([rgb |-> COLORS[color]])

(***************************************************************************)
(* C13 amended: with the Medium policy the spawn of a wave whose type is   *)
(* not an image pulls exactly one colour from the Random object of the     *)
(* session, different from the colour it held, and every instance of the   *)
(* wave has that colour; the spawn of a wave of images pulls none; no      *)
(* colour is pulled while a wave is displayed.                             *)
(***************************************************************************)
C13_State ==
    (InSession /\ settings.colors = "Medium" /\ wave.id >= 1) =>
        IF IsSurface(elements[wave.figure])
        THEN /\ wave.pulls = 0
             /\ \A i \in 1..Len(wave.figures) :
                   wave.figures[i].color = elements[wave.figure]
        ELSE /\ wave.pulls = 1
             /\ \A i \in 1..Len(wave.figures) :
                   wave.figures[i].color = C12_Shown([rgb |-> COLORS[color]])

C13_Step ==
    (InSession /\ settings.colors = "Medium") =>
        /\ wave'.id = wave.id => color' = color
        /\ (wave'.id # wave.id /\ ~IsSurface(elements[wave'.figure])) =>
              color' # color
        /\ (wave'.id # wave.id /\ IsSurface(elements[wave'.figure])) =>
              color' = color

C13_MediumColor == [](C13_State) /\ [][C13_Step]_vars

\* a second coloured wave of several instances, after a wave of images
C13_Witness ==
    /\ pc = "game"
    /\ settings.colors = "Medium"
    /\ wave.id >= 3
    /\ wave.pulls = 1
    /\ Len(wave.figures) >= 2
    /\ \E k \in DOMAIN elements : IsSurface(elements[k]) /\ history[2].figure = k
    /\ history[1].figure = wave.figure

(***************************************************************************)
(* C14: in 2D and in 3D, when a wave is constructed with the colour False  *)
(* every instance gets a colour of its own from one get_color call on a    *)
(* fresh Random object (a catalog colour other than Grey), and the Random  *)
(* object of the session is not used; a wave constructed with a colour     *)
(* tuple has that colour in every instance and a wave constructed with an  *)
(* image has the image itself in every instance, without any pull.         *)
(***************************************************************************)
C14_State ==
    (InSession /\ wave.id >= 1) =>
        \A i \in 1..Len(wave.figures) :
            LET f == wave.figures[i]
            IN  IF wave.color = [flag |-> FALSE]
                THEN /\ f.pulls = 1
                     /\ wave.pulls = 0
                     /\ \E n \in Range(ColorNames) \ {"Grey"} :
                           f.color = C12_Shown([rgb |-> COLORS[n]])
                ELSE IF IsSurface(wave.color)
                THEN f.pulls = 0 /\ f.color = wave.color
                ELSE f.pulls = 0 /\ f.color = C12_Shown(wave.color)

C14_Step ==
    (InSession /\ wave'.id # wave.id /\ wave'.color = [flag |-> FALSE]) =>
        color' = color

C14_InstanceColor == [](C14_State) /\ [][C14_Step]_vars

\* a wave of the Hard policy with two instances of different colours
C14_Witness ==
    /\ pc = "game"
    /\ settings.colors = "Hard"
    /\ wave.color = [flag |-> FALSE]
    /\ Len(wave.figures) >= 2
    /\ wave.figures[1].color # wave.figures[2].color
    /\ wave.figures[1].pulls = 1

(***************************************************************************)
(* C15 as stated: the settings that the settings menu holds and that a     *)
(* session reads are inside their allowed domains (figures an int of       *)
(* 2, 3, 4; time an int of 5, 10, ..., 60; speed an int of 1, 2, 3, 4;     *)
(* colors one of Easy, Medium, Hard; sound one of Off, On), whatever the   *)
(* stored content was and whatever arrows were clicked.                    *)
(***************************************************************************)
C15_Original ==
    pc \in {"settings", "read"} =>
        \A key \in Range(SettingKeys) :
            \E i \in 1..Len(ConfigRange[key]) : ret[key] = ConfigRange[key][i]

(***************************************************************************)
(* C16: on every screen drawn after the player has submitted, the rows     *)
(* are those of the keys of the received counter; a row is marked correct  *)
(* exactly when the count entered equals the count of the counter, and a   *)
(* row marked incorrect shows the count of the counter; the Summary never  *)
(* changes the counter.                                                    *)
(***************************************************************************)
C16_Scored ==
    /\ pc \in {"score", "menu"}
    /\ summary.screen # <<>>
    /\ \E k \in DOMAIN summary.screen : summary.screen[k].mark # "none"

C16_State ==
    /\ pc \in {"score", "menu"} => DOMAIN summary.counted = DOMAIN counter
    /\ (pc \in {"score", "menu"} /\ summary.screen # <<>>) =>
          DOMAIN summary.screen = DOMAIN counter
    /\ C16_Scored =>
          /\ summary.submitted
          /\ \A k \in DOMAIN counter :
                LET row == summary.screen[k]
                IN  /\ row.text = summary.counted[k]
                    /\ row.mark \in {"correct", "incorrect"}
                    /\ row.mark = "correct" <=> summary.counted[k] = counter[k]
                    /\ row.mark = "incorrect" => row.shown = <<counter[k]>>
                    /\ row.mark = "correct" => row.shown = <<>>

C16_Step ==
    pc \in {"summary", "score"} =>
        /\ counter' = counter
        /\ summary.submitted =>
              (summary'.submitted /\ summary'.counted = summary.counted)

C16_Scoring == [](C16_State) /\ [][C16_Step]_vars

\* a submitted screen with one row correct, one too high, for nonzero counts
C16_Witness ==
    /\ C16_Scored
    /\ DOMAIN counter = {"square", "cat"}
    /\ counter["cat"] = 1
    /\ summary.screen["cat"].mark = "correct"
    /\ counter["square"] = 2
    /\ summary.screen["square"].mark = "incorrect"
    /\ summary.counted["square"] = 3

(***************************************************************************)
(* C17: every wave spawn, the first one included, calls play_sound once;   *)
(* a sound is played only when settings.sound is 'On'; when playing fails  *)
(* the spawn still yields its wave, the counter has been increased by      *)
(* len(wave), and further waves are spawned.                               *)
(***************************************************************************)
C17_State ==
    (InSession /\ wave.id >= 1) =>
        /\ wave.calls = wave.id
        /\ Len(history) = wave.id
        /\ settings.sound = "Off" => wave.sound = "off"
        /\ settings.sound = "On" => wave.sound \in {"played", "failed"}
        /\ Len(wave.figures) >= 1
        /\ \A T \in DOMAIN counter : counter[T] = SumLen(history, T)

C17_Step ==
    (InSession /\ wave'.id # wave.id) =>
        /\ wave'.id = wave.id + 1
        /\ wave'.calls = wave.calls + 1
        /\ counter'[wave'.figure] = counter[wave'.figure] + Len(wave'.figures)

C17_Sound == [](C17_State) /\ [][C17_Step]_vars

\* a wave spawned after a wave whose sound failed
C17_Witness ==
    /\ pc = "game"
    /\ settings.sound = "On"
    /\ wave.id = 2
    /\ history[1].sound = "failed"
    /\ wave.sound = "played"
    /\ counter[wave.figure] >= Len(wave.figures)

(***************************************************************************)
(* C18 as stated: from the moment the condition of the loop is false,      *)
(* because the budget is used up or because stop() has been called, no     *)
(* run_game step is executed, no wave is spawned and the counter is not    *)
(* modified.                                                               *)
(***************************************************************************)
C18_Original ==
    [][(pc = "game" /\ (stopped \/ stopped' \/ ~has_time_left(timer, tested')))
          => (wave' = wave /\ counter' = counter /\ camera' = camera)]_vars

(***************************************************************************)
(* C18 amended: the condition of the loop is evaluated once at the start   *)
(* of every iteration and an iteration runs only if it was true; the       *)
(* iteration in which Escape is pressed still executes its run_game step,  *)
(* which can spawn a wave and increase the counter; from the first test    *)
(* that finds the condition false no run_game step is executed, no wave    *)
(* is spawned and the counter is handed to the Summary as it is.           *)
(***************************************************************************)
C18_Step ==
    /\ (pc = "game" /\ pc' = "game") =>
          (~stopped /\ has_time_left(timer, tested') /\ tested' >= now)
    /\ (pc = "game" /\ (stopped \/ ~has_time_left(timer, now))) =>
          /\ pc' = "summary"
          /\ wave' = wave
          /\ counter' = counter
          /\ camera' = camera
          /\ timer' = timer
    /\ pc = "summary" => counter' = counter

C18_Handed ==
    pc = "summary" => \A T \in DOMAIN counter : counter[T] = SumLen(history, T)

C18_Cancellation == [][C18_Step]_vars /\ [](C18_Handed)

\* the loop has ended after an iteration in which Escape was pressed and
\* a wave was spawned
C18_Witness ==
    /\ pc = "summary"
    /\ stopped
    /\ wave.id >= 2
    /\ wave.at = now
    /\ Elapsed(now) < timer.total

(***************************************************************************)
(* C19: for every allowed time and speed the per-wave duration of the      *)
(* timer is 14 / speed and the last-spawn cutoff is time - 7 / speed;      *)
(* time = 30 and speed = 2 give 7.0 and 26.5; the total budget is          *)
(* settings.time; total, per-wave duration, cutoff and start never change  *)
(* during the session.                                                     *)
(***************************************************************************)
C19_State ==
    InSession =>
        /\ timer.total = settings.time * Scale
        /\ timer.wave * settings.speed = 14 * Scale
        /\ (timer.total - timer.last) * settings.speed = 7 * Scale
        /\ (settings.time = 30 /\ settings.speed = 2) =>
              /\ timer.wave = 7 * Scale
              /\ 2 * timer.last = 53 * Scale

C19_Step ==
    InSession =>
        /\ timer'.total = timer.total
        /\ timer'.wave = timer.wave
        /\ timer'.last = timer.last
        /\ timer'.start = timer.start
        /\ settings' = settings

C19_Timer == [](C19_State) /\ [][C19_Step]_vars

\* the example of the claim, after the fourth wave interval has begun
C19_Witness ==
    /\ pc = "game"
    /\ settings.time = 30
    /\ settings.speed = 2
    /\ timer.wave = 84
    /\ timer.last = 318
    /\ "interval" \in DOMAIN timer
    /\ timer.interval = timer.start + 3 * timer.wave

(***************************************************************************)
(* C20: in a 2D session a tick replaces the wave exactly when the clock,   *)
(* as the tick read it last, is past interval + per-wave duration and the  *)
(* elapsed time is below the last-spawn cutoff; a replacement spawns one   *)
(* wave and advances interval by one per-wave duration; any other tick     *)
(* leaves wave, timer and counter as they are; interval - start is the     *)
(* number of waves spawned minus one, times the per-wave duration.         *)
(***************************************************************************)
C20_Step ==
    (mode = "Static" /\ pc = "game" /\ pc' = "game") =>
        /\ wave'.id # wave.id <=>
              (/\ now' > timer.interval + timer.wave
               /\ now' - timer.start < timer.last)
        /\ wave'.id # wave.id =>
              /\ wave'.id = wave.id + 1
              /\ Len(history') = Len(history) + 1
              /\ timer' = [timer EXCEPT !.interval = @ + timer.wave]
              /\ counter' = [counter EXCEPT ![wave'.figure] =
                                @ + Len(wave'.figures)]
        /\ wave'.id = wave.id =>
              (wave' = wave /\ timer' = timer /\ counter' = counter)

C20_Interval ==
    (mode = "Static" /\ pc \in {"game", "summary", "exit"}) =>
        timer.interval - timer.start = (wave.id - 1) * timer.wave

C20_TickRule == [][C20_Step]_vars /\ [](C20_Interval)

\* a tick has redrawn the third wave of a session
C20_Witness ==
    /\ mode = "Static"
    /\ pc = "game"
    /\ wave.id = 3
    /\ timer.interval = timer.start + 2 * timer.wave
    /\ now > wave.at

(***************************************************************************)
(* C21: in a 3D session every tick moves the camera once; the tick         *)
(* replaces the wave exactly when the camera Z it read is below            *)
(* spawned_at - 100 and the elapsed time is below the last-spawn cutoff;   *)
(* the new wave is built at that camera Z, which becomes spawned_at; any   *)
(* other tick leaves wave, spawned_at and counter as they are.  spawned_at *)
(* starts at -10 and each new value is more than 100 below the one before. *)
(***************************************************************************)
C21_CameraZ == move_view(camera, settings, platform)

C21_Step ==
    (mode = "Dynamic" /\ pc = "game" /\ pc' = "game") =>
        /\ camera' = camera + 1
        /\ wave'.id # wave.id <=>
              (/\ C21_CameraZ' < spawned_at - 100
               /\ now' - timer.start < timer.last)
        /\ wave'.id # wave.id =>
              /\ wave'.id = wave.id + 1
              /\ Len(history') = Len(history) + 1
              /\ spawned_at' = C21_CameraZ'
              /\ spawned_at' < spawned_at - 100
              /\ \A i \in 1..Len(wave'.figures) :
                     wave'.figures[i].position_z = C21_CameraZ'
              /\ counter' = [counter EXCEPT ![wave'.figure] =
                                @ + Len(wave'.figures)]
        /\ wave'.id = wave.id =>
              (wave' = wave /\ spawned_at' = spawned_at /\ counter' = counter)

C21_First ==
    (mode = "Dynamic" /\ pc \in {"game", "summary", "exit"}) =>
        /\ wave.id = 1 => spawned_at = 0 - 10
        /\ wave.id >= 2 => spawned_at < 0 - 110
        /\ \A i \in 1..Len(wave.figures) :
               wave.figures[i].position_z = spawned_at

C21_TickRule == [][C21_Step]_vars /\ [](C21_First)

\* a 3D session whose first wave has been replaced
C21_Witness ==
    /\ mode = "Dynamic"
    /\ pc = "game"
    /\ wave.id = 2
    /\ spawned_at = 0 - 111
    /\ camera > 0

(***************************************************************************)
(* C22 as stated: every session that leaves the tick loop goes on to the   *)
(* Summary.                                                                *)
(***************************************************************************)
C22_Original ==
    [][(InSession /\ pc = "game" /\ pc' # "game") => pc' = "summary"]_vars

\* sum of the counter values of the figure types in keys
RECURSIVE C22_Sum(_, _)
C22_Sum(cnt, keys) ==
    IF keys = {} THEN 0
    ELSE LET k == CHOOSE x \in keys : TRUE
         IN  cnt[k] + C22_Sum(cnt, keys \ {k})

(***************************************************************************)
(* C22: a session passes from Initializing to Running to Ending in this    *)
(* order, each at most once, and leaves Running for Ending unless a QUIT   *)
(* event ends the program.  Before the first tick the counter has been     *)
(* zeroed and the first wave spawned and counted; the Summary is created   *)
(* only when the loop has ended, with the counter of the last tick; then   *)
(* no tick runs and no wave is spawned; the counter total handed over is   *)
(* at least 1 in 2D and 2 in 3D.                                           *)
(***************************************************************************)
C22_Order ==
    InSession =>
        /\ pc = "init" => pc' \in {"init", "game"}
        /\ pc = "game" => pc' \in {"game", "summary", "exit"}
        /\ pc \in {"summary", "exit"} => UNCHANGED vars
        /\ (pc = "init" /\ pc' = "game") =>
              /\ \A T \in DOMAIN counter : counter[T] = 0
              /\ wave.id = 0 /\ wave'.id = 1
              /\ camera' = 0 /\ tested' = timer.start
              /\ counter'[wave'.figure] = Len(wave'.figures)
        /\ (pc = "game" /\ pc' = "summary") =>
              /\ ~Handler_condition(stopped, timer, tested')
              /\ counter' = counter /\ wave' = wave /\ history' = history
        /\ (pc = "game" /\ pc' = "exit") => stopped' = stopped

C22_HandOver ==
    (InSession /\ pc = "summary") =>
        /\ wave.id >= 1
        /\ C22_Sum(counter, DOMAIN counter) >=
              (IF mode = "Static" THEN 1 ELSE 2)

C22_Lifecycle == [][C22_Order]_vars /\ [](C22_HandOver)

\* a session ended with one wave of the smallest size counted
C22_Witness ==
    /\ pc = "summary"
    /\ wave.id = 1
    /\ C22_Sum(counter, DOMAIN counter) = (IF mode = "Static" THEN 1 ELSE 2)

(***************************************************************************)
(* C23: a tick that draws the current wave again leaves its figure type,   *)
(* the number of its instances and the position and colour of each         *)
(* instance as they were, and what it draws is those instances; a wave     *)
(* changes only by being replaced as a whole by a newly created one.       *)
(***************************************************************************)
C23_Position(fig) ==
    IF "mid_point" \in DOMAIN fig THEN <<fig.mid_point, fig.size>>
    ELSE <<fig.position_z, fig.shift>>

C23_Step ==
    (InSession /\ pc = "game") =>
        /\ wave'.id = wave.id =>
              /\ wave'.figure = wave.figure
              /\ Len(wave'.figures) = Len(wave.figures)
              /\ \A i \in 1..Len(wave.figures) :
                     /\ wave'.figures[i].figure = wave.figures[i].figure
                     /\ wave'.figures[i].color = wave.figures[i].color
                     /\ C23_Position(wave'.figures[i]) =
                            C23_Position(wave.figures[i])
              /\ display' # display =>
                     /\ display'.id = wave.id
                     /\ Len(display'.drawn) = Len(wave.figures)
                     /\ \A i \in 1..Len(wave.figures) :
                            display'.drawn[i].color = wave.figures[i].color
        /\ wave' # wave =>
              /\ wave'.id = wave.id + 1
              /\ Len(history') = Len(history) + 1
              /\ wave'.at = now'
              /\ display'.id = 0

C23_Immutable == [][C23_Step]_vars

\* the second wave of a session, of at least two instances, has been drawn
C23_Witness ==
    /\ pc = "game"
    /\ wave.id = 2
    /\ Len(wave.figures) >= 2
    /\ display.id = 2
    /\ Len(display.drawn) = Len(wave.figures)

(***************************************************************************)
(* C24 as stated: two runs of a session with the same settings and         *)
(* elements but different numbers of iterations per unit of the clock end  *)
(* at the same elapsed time and replace their waves at the same elapsed    *)
(* times, up to one iteration.                                             *)
(***************************************************************************)
C24_Near(a, b) == a - b <= 1 /\ b - a <= 1

C24_Original ==
    (pc = "summary" /\ arg.run = 2) =>
        /\ C24_Near(now - timer.start, ret.ended)
        /\ Len(arg.spawns) = Len(ret.spawns)
        /\ \A k \in 1..Len(arg.spawns) : C24_Near(arg.spawns[k], ret.spawns[k])

(***************************************************************************)
(* C25: an iteration of a Handler loop that reads a QUIT event ends the    *)
(* program, and so does one of the main menu that reads Escape; an         *)
(* iteration of a session, of the settings menu or of the Summary that     *)
(* reads Escape and no QUIT only stops its loop: the session goes on to    *)
(* the Summary with the counter as it is, and the main menu runs again     *)
(* when the Summary or the settings menu is left.  The program ends in no  *)
(* other way than by QUIT, by Escape in the main menu or by its Exit       *)
(* button.                                                                 *)
(***************************************************************************)
C25_Has(name) == \E i \in 1..Len(events') : events'[i] = name

\* the step is an iteration of the Handler loop of the place pc
C25_Iteration ==
    \/ pc \in {"menu", "settings", "score"}
    \/ pc = "game" /\ pc' # "summary"

C25_Step ==
    /\ (C25_Iteration /\ C25_Has("QUIT")) => pc' = "exit"
    /\ (pc = "menu" /\ C25_Has("ESCAPE")) => pc' = "exit"
    /\ (C25_Iteration /\ C25_Has("ESCAPE") /\ ~C25_Has("QUIT")) =>
          /\ pc = "game" => (pc' = "game" /\ stopped')
          /\ pc \in {"settings", "score"} => pc' = "menu"
    /\ (pc = "game" /\ stopped) =>
          (pc' = "summary" /\ counter' = counter)
    /\ pc = "summary" => (pc' = "score" /\ counter' = counter)
    /\ (pc = "score" /\ pc' # "score") => pc' \in {"menu", "exit"}
    /\ (pc = "settings" /\ pc' # "settings") => pc' \in {"menu", "exit"}
    /\ (pc # "exit" /\ pc' = "exit") =>
          (C25_Has("QUIT") \/ pc = "menu")
    /\ pc' # "done"

C25_Escape == [][C25_Step]_vars

\* a session was stopped by Escape, its Summary was left by Escape and the
\* main menu runs again
C25_Witness ==
    /\ pc = "menu"
    /\ stopped
    /\ wave.id >= 1
    /\ summary.counted # <<>>
    /\ events = <<"ESCAPE">>

(***************************************************************************)
(* C26 as stated: when the counter is handed to the Summary, the wave      *)
(* counted last has been drawn.                                            *)
(***************************************************************************)
C26_Original ==
    (InSession /\ pc = "summary" /\ wave.id >= 1) => display.id = wave.id

(***************************************************************************)
(* C27: in a 2D session the k-th replacement of a wave is made at an       *)
(* elapsed time above k times the per-wave duration 14 / speed, a tick     *)
(* spawns at most one wave, and the number of waves spawned is at most 1   *)
(* plus the number of k >= 1 with k * 14 / speed < time - 7 / speed; with  *)
(* time <= 21 / speed the first wave is never replaced.                    *)
(***************************************************************************)
\* the number of k >= 1 with k * 14 / speed < time - 7 / speed
C27_Replacements(st) ==
    Cardinality({k \in 1..(st.time * st.speed) :
                    k * 14 < st.time * st.speed - 7})

C27_State ==
    (mode = "Static" /\ pc \in {"game", "summary", "exit"}) =>
        /\ wave.id <= 1 + C27_Replacements(settings)
        /\ wave.id >= 2 =>
              (wave.at - StartTime) * settings.speed >
                  (wave.id - 1) * 14 * Scale
        /\ settings.time * settings.speed <= 21 => wave.id = 1

C27_Step ==
    (mode = "Static" /\ InSession) => wave'.id <= wave.id + 1

C27_WaveBound == [](C27_State) /\ [][C27_Step]_vars

\* the largest number of waves of a session of 10 s at speed 4
C27_Witness ==
    /\ mode = "Static"
    /\ pc = "summary"
    /\ settings.time = 10
    /\ settings.speed = 4
    /\ wave.id = 3

(***************************************************************************)
(* C28 as stated: every value of the counter handed to the Summary is at   *)
(* most 99.                                                                *)
(***************************************************************************)
C28_Original ==
    (InSession /\ pc = "summary") =>
        \A T \in DOMAIN counter : counter[T] <= 99

(***************************************************************************)
(* C29 as stated: with the Medium policy every new wave has a colour       *)
(* different from that of the wave before it.                              *)
(***************************************************************************)
C29_Original ==
    [][(InSession /\ settings.colors = "Medium" /\ wave.id >= 1
        /\ wave'.id # wave.id) => wave'.color # wave.color]_vars

(***************************************************************************)
(* C29 amended: with the Medium policy every new wave of a geometric       *)
(* figure has the colour its spawn pulled from the Random object of the    *)
(* session, which differs from the colour of the latest geometric wave     *)
(* before it whatever the figure types and however many waves of images    *)
(* lie between; the first geometric wave is never Grey; a wave of images   *)
(* has no colour and leaves the Random object as it is.                    *)
(***************************************************************************)
C29_State ==
    (InSession /\ settings.colors = "Medium") =>
        /\ (wave.id >= 1 /\ ~IsSurface(wave.color)) =>
              wave.color = [rgb |-> COLORS[color]]
        /\ (\A k \in 1..Len(history) :
               IsSurface(elements[history[k].figure])) => color = "Grey"

C29_Step ==
    (InSession /\ settings.colors = "Medium" /\ wave'.id # wave.id) =>
        IF IsSurface(elements[wave'.figure])
        THEN /\ wave'.color = elements[wave'.figure]
             /\ color' = color
        ELSE /\ wave'.color = [rgb |-> COLORS[color']]
             /\ wave'.color # [rgb |-> COLORS[color]]
             /\ color = "Grey" => wave'.color # [rgb |-> COLORS["Grey"]]
             /\ (wave.id >= 1 /\ ~IsSurface(wave.color)) =>
                   wave'.color # wave.color

C29_WaveColors == [](C29_State) /\ [][C29_Step]_vars

\* a third wave of a geometric figure, of another type than the first,
\* with a wave of images between them
C29_Witness ==
    /\ settings.colors = "Medium"
    /\ pc = "game"
    /\ Len(history) = 3
    /\ ~IsSurface(elements[history[1].figure])
    /\ IsSurface(elements[history[2].figure])
    /\ ~IsSurface(wave.color)
    /\ wave.figure = history[3].figure

(***************************************************************************)
(* C30: every count of the Summary is 0 when the Summary is created and    *)
(* stays within 0..99; a click on an arrow changes one count by exactly 1, *)
(* down only from above 0 and up only from below 99; once submitted is     *)
(* true it stays true and no count changes any more.                       *)
(***************************************************************************)
C30_State ==
    pc \in {"score", "menu"} =>
        \A position \in DOMAIN summary.counted :
            summary.counted[position] \in 0..99

C30_Step ==
    /\ (pc = "summary" /\ pc' = "score") =>
          /\ ~summary'.submitted
          /\ DOMAIN summary'.counted = DOMAIN counter
          /\ \A position \in DOMAIN counter : summary'.counted[position] = 0
    /\ (pc = "score" /\ summary'.counted # summary.counted) =>
          /\ ~summary.submitted
          /\ \E position \in DOMAIN summary.counted :
                /\ \/ /\ summary'.counted[position] =
                            summary.counted[position] + 1
                      /\ summary.counted[position] < 99
                   \/ /\ summary'.counted[position] =
                            summary.counted[position] - 1
                      /\ summary.counted[position] > 0
                /\ \A other \in DOMAIN summary.counted \ {position} :
                      summary'.counted[other] = summary.counted[other]
    /\ (pc = "score" /\ summary.submitted) =>
          /\ summary'.submitted
          /\ summary'.counted = summary.counted

C6_NoRepeatColor ==
    pc = "color" =>
        /\ \A i \in 1..Len(pulled) : \E n \in Range(ColorNames) : pulled[i] = COLORS[n]
        /\ \A i \in 1..(Len(pulled) - 1) : pulled[i] # pulled[i + 1]
        /\ IF pulled = <<>> THEN color = "Grey"
                            ELSE /\ COLORS[color] = pulled[Len(pulled)]
                                 /\ pulled[1] # COLORS["Grey"]

C6_Witness == pc = "color" /\ Len(pulled) >= 2 /\ pulled[2] = COLORS["Grey"]

(***************************************************************************)
(* C7: pick('Easy', k), 0 <= k <= 7, returns a list of exactly k pairwise  *)
(* distinct RGB triples of the catalog; pick('Medium', k) returns True and *)
(* pick('Hard', k) returns False.                                          *)
(***************************************************************************)
C7_PickResult ==
    (pc = "pick" /\ "none" \notin DOMAIN ret) =>
        IF arg.setting = "Easy"
        THEN /\ DOMAIN ret = {"list"}
             /\ Len(ret.list) = arg.amount
             /\ \A i \in 1..Len(ret.list) :
                   \E n \in Range(ColorNames) : ret.list[i] = [rgb |-> COLORS[n]]
             /\ \A i, j \in 1..Len(ret.list) :
                   i # j => ret.list[i] # ret.list[j]
        ELSE ret = [flag |-> (arg.setting = "Medium")]

C7_Witness ==
    /\ pc = "pick"
    /\ arg = [setting |-> "Easy", amount |-> 3]
    /\ "list" \in DOMAIN ret
    /\ Len(ret.list) = 3

====
